---- MODULE Spec2Model ----
(***************************************************************************)
(* ChatCompletionChunkStream of src/src/chat.rs (module chat::stream): the  *)
(* incremental decoder that turns the byte chunks of an HTTP response body *)
(* into a stream of ChatCompletionChunk items.                             *)
(*                                                                         *)
(* Text is a sequence of tokens.  Each token stands for a run of bytes     *)
(* that the code treats as one unit:                                       *)
(*   "D"   the prefix `data: `                                             *)
(*   "T"   the termination payload `[DONE]`                                *)
(*   "{" "}"  the braces of a JSON object                                  *)
(*   "a" "b"  the fields of a JSON object (two different contents)         *)
(*   "n"   one line break; the frame delimiter is two of them              *)
(*   "c1" "c2"  the two bytes of one two-byte UTF-8 character              *)
(***************************************************************************)
EXTENDS Integers, Sequences, FiniteSets, TLC

\* ------------------------------------------------------------------ bounds

\* Tokens per response body.
MaxLen == 12

\* Entries in the `choices` list of a chunk.
MaxChoices == 3

\* ------------------------------------------------------------------ text

NL == "n"
PREFIX == "D"
DONE == "T"
RBRACE == "}"
LBRACE == "{"

DELIM == <<NL, NL>>

Min(S) == CHOOSE x \in S : \A y \in S : x <= y

\* Positions where the pattern "\n\n" starts in s.
DelimAt(s) == {i \in 1..(Len(s) - 1) : s[i] = NL /\ s[i + 1] = NL}

\* str::split("\n\n"): the segments between non-overlapping matches, found
\* left to right; a text without the pattern is its own single segment.
RECURSIVE Split(_)
Split(s) ==
    IF DelimAt(s) = {}
    THEN <<s>>
    ELSE LET i == Min(DelimAt(s))
         IN  <<SubSeq(s, 1, i - 1)>> \o Split(SubSeq(s, i + 2, Len(s)))

\* join with the empty separator in place of "\n\n".
RECURSIVE JoinConcat(_)
JoinConcat(segs) ==
    IF Len(segs) = 0 THEN <<>> ELSE segs[1] \o JoinConcat(Tail(segs))

\* [&str]::join("\n\n")
RECURSIVE Join(_)
Join(segs) ==
    IF Len(segs) = 0 THEN <<>>
    ELSE IF Len(segs) = 1 THEN segs[1]
    ELSE segs[1] \o DELIM \o Join(Tail(segs))

\* str::strip_prefix("data: ")
StripPrefix(seg) ==
    IF Len(seg) >= 1 /\ seg[1] = PREFIX
    THEN [some |-> TRUE, rest |-> Tail(seg)]
    ELSE [some |-> FALSE, rest |-> <<>>]

\* str::ends_with("}")
EndsWithBrace(s) == Len(s) >= 1 /\ s[Len(s)] = RBRACE

\* str::from_utf8 on one chunk of bytes: every lead byte is followed by its
\* continuation byte inside the chunk, and every continuation byte follows
\* its lead byte inside the chunk.
Utf8Valid(bytes) ==
    \A i \in 1..Len(bytes) :
        /\ bytes[i] = "c1" => (i < Len(bytes) /\ bytes[i + 1] = "c2")
        /\ bytes[i] = "c2" => (i > 1 /\ bytes[i - 1] = "c1")

\* Nesting depth of braces after the first i tokens of p.
Depth(p, i) ==
    Cardinality({j \in 1..i : p[j] = LBRACE}) - Cardinality({j \in 1..i : p[j] = RBRACE})

\* The tokens that may occur inside a JSON object.
JsonTokens == {LBRACE, RBRACE, "a", "b", "c1", "c2", NL}

\* serde_json accepts exactly one whole JSON object: it opens with a brace,
\* stays open until its last token, and closes there.
ValidJson(p) ==
    /\ Len(p) >= 2
    /\ p[1] = LBRACE
    /\ \A i \in 1..Len(p) : p[i] \in JsonTokens
    /\ \A i \in 1..(Len(p) - 1) : Depth(p, i) > 0
    /\ Depth(p, Len(p)) = 0

\* ------------------------------------------------------------------ items

NoItem == [t |-> "NoItem", v |-> <<>>]
OkItem(p) == [t |-> "Ok", v |-> p]
ErrItem(kind) == [t |-> "Err", v |-> <<kind>>]

\* serde_json::from_str::<ChatCompletionChunk>(&chunk).map_err(..)
FromStr(p) == IF ValidJson(p) THEN OkItem(p) ELSE ErrItem("json")

\* ------------------------------------------------------------------ deserialize_buf

\* What deserialize_buf returns and does: `some` and `item` are its
\* Option<Result<ChatCompletionChunk>>, `buf` is self.buf afterwards and
\* `wake` tells whether it called cx.waker().wake_by_ref().
NoChunk(b) == [some |-> FALSE, item |-> NoItem, buf |-> b, wake |-> FALSE]

\* deserialize_buf with `chunks.next()` in place of `chunks.peek()`: the
\* second segment is taken out of the iterator before the remainder is saved.
DeserializeBufNextSecond(b) ==
    LET chunks == Split(b)
        first == chunks[1]
        sp == StripPrefix(first)
    IN  IF ~sp.some THEN NoChunk(b)
        ELSE IF ~EndsWithBrace(sp.rest) THEN NoChunk(b)
        ELSE [some |-> TRUE,
              item |-> FromStr(sp.rest),
              buf  |-> IF Len(chunks) >= 2 THEN Join(Tail(Tail(chunks))) ELSE <<>>,
              wake |-> Len(chunks) >= 2 /\ EndsWithBrace(chunks[2])]

\* deserialize_buf that takes the termination frame for a chunk as well: the
\* guard lets `[DONE]` through to serde_json.
DeserializeBufTakesDone(b) ==
    LET chunks == Split(b)
        first == chunks[1]
        sp == StripPrefix(first)
    IN  IF ~sp.some THEN NoChunk(b)
        ELSE IF ~(EndsWithBrace(sp.rest) \/ sp.rest = <<DONE>>) THEN NoChunk(b)
        ELSE [some |-> TRUE,
              item |-> FromStr(sp.rest),
              buf  |-> Join(Tail(chunks)),
              wake |-> Len(chunks) >= 2 /\ EndsWithBrace(chunks[2])]

\* fn deserialize_buf.  split() always yields a first segment, so the arm
\* `first = None` is never taken.
DeserializeBuf(b) ==
    LET chunks == Split(b)
        first == chunks[1]
        sp == StripPrefix(first)
    IN  IF ~sp.some THEN NoChunk(b)
        ELSE IF ~EndsWithBrace(sp.rest) THEN NoChunk(b)
        ELSE [some |-> TRUE,
              item |-> FromStr(sp.rest),
              buf  |-> Join(Tail(chunks)),
              wake |-> Len(chunks) >= 2 /\ EndsWithBrace(chunks[2])]

\* ------------------------------------------------------------------ byte source

\* What byte_stream.poll_next returns: Poll::Pending, Ready(None),
\* Ready(Some(Err(e))) or Ready(Some(Ok(bytes))).
SrcPending == [t |-> "Pending", bytes |-> <<>>]
SrcEnd == [t |-> "End", bytes |-> <<>>]
SrcErr == [t |-> "Err", bytes |-> <<>>]
SrcBytes(bytes) == [t |-> "Bytes", bytes |-> bytes]

\* ------------------------------------------------------------------ poll_next

\* What poll_next returns and does.  res is "Item" for Ready(Some(item)),
\* "None" for Ready(None), "Pending" for Poll::Pending; buf is self.buf
\* afterwards, grew tells whether the chunk was appended to self.buf, polls
\* counts the calls of byte_stream.poll_next, woke tells whether the decoder
\* called the waker itself.
Polled(res, item, b, grew, woke, polls) ==
    [res |-> res, item |-> item, buf |-> b, grew |-> grew, woke |-> woke,
     polls |-> polls]

\* The handling of a source response in which the chunk replaces the buffer
\* (self.buf = data) instead of being appended to it.
OnSourceOverwrite(b, r, polls) ==
    CASE r.t = "Pending" -> Polled("Pending", NoItem, b, FALSE, FALSE, polls)
      [] r.t = "End"     -> Polled("None", NoItem, b, FALSE, FALSE, polls)
      [] r.t = "Err"     -> Polled("Item", ErrItem("transport"), b, FALSE, FALSE, polls)
      [] r.t = "Bytes"   ->
            IF ~Utf8Valid(r.bytes)
            THEN Polled("Item", ErrItem("utf8"), b, FALSE, FALSE, polls)
            ELSE LET d == DeserializeBuf(r.bytes)
                 IN  IF d.some
                     THEN Polled("Item", d.item, d.buf, TRUE, d.wake, polls)
                     ELSE Polled("Pending", NoItem, d.buf, TRUE, TRUE, polls)

\* The handling of a source response in which a chunk that is not valid UTF-8
\* is kept: the error is returned and the chunk is appended to the buffer all
\* the same.
OnSourceKeepsInvalid(b, r, polls) ==
    CASE r.t = "Pending" -> Polled("Pending", NoItem, b, FALSE, FALSE, polls)
      [] r.t = "End"     -> Polled("None", NoItem, b, FALSE, FALSE, polls)
      [] r.t = "Err"     -> Polled("Item", ErrItem("transport"), b, FALSE, FALSE, polls)
      [] r.t = "Bytes"   ->
            IF ~Utf8Valid(r.bytes)
            THEN Polled("Item", ErrItem("utf8"), b \o r.bytes, TRUE, FALSE, polls)
            ELSE LET d == DeserializeBuf(b \o r.bytes)
                 IN  IF d.some
                     THEN Polled("Item", d.item, d.buf, TRUE, d.wake, polls)
                     ELSE Polled("Pending", NoItem, d.buf, TRUE, TRUE, polls)

\* The handling of a source response without the second deserialize_buf: the
\* chunk is appended, the task is woken and Poll::Pending is returned.
OnSourceNoRetry(b, r, polls) ==
    CASE r.t = "Pending" -> Polled("Pending", NoItem, b, FALSE, FALSE, polls)
      [] r.t = "End"     -> Polled("None", NoItem, b, FALSE, FALSE, polls)
      [] r.t = "Err"     -> Polled("Item", ErrItem("transport"), b, FALSE, FALSE, polls)
      [] r.t = "Bytes"   ->
            IF ~Utf8Valid(r.bytes)
            THEN Polled("Item", ErrItem("utf8"), b, FALSE, FALSE, polls)
            ELSE Polled("Pending", NoItem, b \o r.bytes, TRUE, TRUE, polls)

\* The handling of a source response without the wake-up on a partial frame:
\* Poll::Pending is returned and the waker is not called.
OnSourceNoWake(b, r, polls) ==
    CASE r.t = "Pending" -> Polled("Pending", NoItem, b, FALSE, FALSE, polls)
      [] r.t = "End"     -> Polled("None", NoItem, b, FALSE, FALSE, polls)
      [] r.t = "Err"     -> Polled("Item", ErrItem("transport"), b, FALSE, FALSE, polls)
      [] r.t = "Bytes"   ->
            IF ~Utf8Valid(r.bytes)
            THEN Polled("Item", ErrItem("utf8"), b, FALSE, FALSE, polls)
            ELSE LET d == DeserializeBuf(b \o r.bytes)
                 IN  IF d.some
                     THEN Polled("Item", d.item, d.buf, TRUE, d.wake, polls)
                     ELSE Polled("Pending", NoItem, d.buf, TRUE, FALSE, polls)

\* The handling of a source response in which the end of the source is
\* answered with Poll::Pending instead of Ready(None).
OnSourceEndPends(b, r, polls) ==
    CASE r.t = "Pending" -> Polled("Pending", NoItem, b, FALSE, FALSE, polls)
      [] r.t = "End"     -> Polled("Pending", NoItem, b, FALSE, FALSE, polls)
      [] r.t = "Err"     -> Polled("Item", ErrItem("transport"), b, FALSE, FALSE, polls)
      [] r.t = "Bytes"   ->
            IF ~Utf8Valid(r.bytes)
            THEN Polled("Item", ErrItem("utf8"), b, FALSE, FALSE, polls)
            ELSE LET d == DeserializeBuf(b \o r.bytes)
                 IN  IF d.some
                     THEN Polled("Item", d.item, d.buf, TRUE, d.wake, polls)
                     ELSE Polled("Pending", NoItem, d.buf, TRUE, TRUE, polls)

\* One source response handled as poll_next handles it (lines 273-297), the
\* buffer being b.
OnSource(b, r, polls) ==
    CASE r.t = "Pending" -> Polled("Pending", NoItem, b, FALSE, FALSE, polls)
      [] r.t = "End"     -> Polled("None", NoItem, b, FALSE, FALSE, polls)
      [] r.t = "Err"     -> Polled("Item", ErrItem("transport"), b, FALSE, FALSE, polls)
      [] r.t = "Bytes"   ->
            IF ~Utf8Valid(r.bytes)
            THEN Polled("Item", ErrItem("utf8"), b, FALSE, FALSE, polls)
            ELSE LET d == DeserializeBuf(b \o r.bytes)
                 IN  IF d.some
                     THEN Polled("Item", d.item, d.buf, TRUE, d.wake, polls)
                     ELSE Polled("Pending", NoItem, d.buf, TRUE, TRUE, polls)

\* poll_next that, on a partial frame, polls the source again at once
\* instead of waking the task and returning Pending.
PollNextLoop(b, ready) ==
    LET d == DeserializeBuf(b)
        one == OnSource(b, ready[1], 1)
    IN  IF d.some
        THEN Polled("Item", d.item, d.buf, FALSE, d.wake, 0)
        ELSE IF ready[1].t = "Bytes" /\ one.res = "Pending"
             THEN [OnSource(one.buf, ready[2], 2) EXCEPT !.grew = TRUE]
             ELSE one

\* fn poll_next.  ready is what the source returns on successive polls.
PollNext(b, ready) ==
    LET d == DeserializeBuf(b)
    IN  IF d.some
        THEN Polled("Item", d.item, d.buf, FALSE, d.wake, 0)
        ELSE OnSource(b, ready[1], 1)

\* ------------------------------------------------------------------ response bodies

\* Three well-formed data frames: a plain one, one with a nested object and
\* one with a two-byte character.
FrameA == <<PREFIX, LBRACE, RBRACE, NL, NL>>
FrameB == <<PREFIX, LBRACE, LBRACE, RBRACE, RBRACE, NL, NL>>
FrameU == <<PREFIX, LBRACE, "c1", "c2", RBRACE, NL, NL>>
\* The termination frame.
FrameDone == <<PREFIX, DONE, NL, NL>>
\* Data frames whose payload is no JSON object: one that does not end with a
\* closing brace (`data: {bad json`) and one that does.
FrameBadOpen == <<PREFIX, LBRACE, NL, NL>>
FrameBadClosed == <<PREFIX, RBRACE, NL, NL>>
\* A frame without the prefix.
FrameNoPrefix == <<LBRACE, RBRACE, NL, NL>>

FrameKinds ==
    {FrameA, FrameB, FrameU, FrameDone, FrameBadOpen, FrameBadClosed, FrameNoPrefix}

\* The bodies of at most k tokens: any frames in any order.
RECURSIVE Bodies(_)
Bodies(k) ==
    {<<>>} \cup UNION {{f \o w : w \in Bodies(k - Len(f))} :
                        f \in {g \in FrameKinds : Len(g) <= k}}

\* ------------------------------------------------------------------ state

VARIABLES
    wire,      \* the whole text of the response body
    pos,       \* how many tokens of wire the source has handed out
    srcFailed, \* the source has reported a transport error
    srcEnded,  \* the source has returned Ready(None)
    buf,       \* ChatCompletionChunkStream.buf
    org,       \* for each token of buf, its position in wire
    out,       \* the items returned so far as Ready(Some(item)), in order
    outFrom,   \* for each item of out, the frames of wire its text came from
    last       \* the latest call of poll_next: res, item, polls and woke are what
               \* PollNext says of it; two holds the payloads of the two frames
               \* when the call appended a chunk of two complete data frames to
               \* an empty buffer; after2 tells that the call before it did so;
               \* src is what byte_stream.poll_next returned to the call;
               \* had tells that self.buf was not empty when the call began
VARIABLES
    dropped    \* the positions in wire of the chunks rejected as invalid UTF-8
VARIABLES
    json,      \* the JSON object a consumer decodes into a ChatCompletionChunk
    shown      \* what formatting that chunk with Display gave

vars ==
    <<wire, pos, srcFailed, srcEnded, buf, org, out, outFrom, last, dropped, json,
      shown>>

\* A JSON object without the key `choices`; no chunk is decoded from it.
NoJson == [given |-> FALSE, choices |-> <<>>]
\* Nothing has been formatted.
NotShown == [t |-> "NotShown", v |-> ""]

NoCall ==
    [res |-> "New", item |-> NoItem, polls |-> 0, woke |-> FALSE, two |-> <<>>,
     after2 |-> FALSE, src |-> "NotPolled", had |-> FALSE]

\* ChatCompletionChunkStream::new on a fresh response body.
Init ==
    /\ wire \in Bodies(MaxLen)
    /\ pos = 0
    /\ srcFailed = FALSE
    /\ srcEnded = FALSE
    /\ buf = <<>>
    /\ org = <<>>
    /\ out = <<>>
    /\ outFrom = <<>>
    /\ last = NoCall
    /\ dropped = {}
    /\ json = NoJson
    /\ shown = NotShown

\* What the source returns on the poll after it handed out the tokens up to p.
\* A source that has ended keeps returning Ready(None).
NextReady(p) ==
    IF p < Len(wire) THEN SrcBytes(SubSeq(wire, p + 1, Len(wire))) ELSE SrcEnd

RECURSIVE SumLen(_)
SumLen(rs) == IF rs = <<>> THEN 0 ELSE Len(rs[1].bytes) + SumLen(Tail(rs))

RECURSIVE Concat(_)
Concat(rs) == IF rs = <<>> THEN <<>> ELSE rs[1].bytes \o Concat(Tail(rs))

Count(rs, t) == Cardinality({i \in 1..Len(rs) : rs[i].t = t})

\* The last n entries of s.
Suffix(s, n) == IF n >= Len(s) THEN s ELSE SubSeq(s, Len(s) - n + 1, Len(s))

\* The position in w where its k-th frame ends, delimiter included.
RECURSIVE FrameEnd(_, _)
FrameEnd(segs, k) == IF k = 0 THEN 0 ELSE FrameEnd(segs, k - 1) + Len(segs[k]) + 2

\* The frame of wire that holds position i.
FrameOf(i) == Min({k \in 1..Len(Split(wire)) : i <= FrameEnd(Split(wire), k)})

\* seg is a complete data frame: the prefix and a whole JSON object.
IsDataFrame(seg) == StripPrefix(seg).some /\ ValidJson(StripPrefix(seg).rest)

\* text starts with two complete data frames, each with its delimiter.
TwoFrames(text) ==
    /\ Len(Split(text)) >= 3
    /\ IsDataFrame(Split(text)[1])
    /\ IsDataFrame(Split(text)[2])

\* The payloads of the first two frames of text.
FirstTwo(text) == <<StripPrefix(Split(text)[1]).rest, StripPrefix(Split(text)[2]).rest>>

\* One call of poll_next, r being what the source returns if it is polled.
Pull(r) ==
    LET ready == <<r, NextReady(pos + Len(r.bytes))>>
        p == PollNext(buf, ready)
        taken == SubSeq(ready, 1, p.polls)
        full == IF p.grew THEN org \o [i \in 1..SumLen(taken) |-> pos + i] ELSE org
        cut == Len(full) - Len(p.buf)
    IN  /\ buf' = p.buf
        /\ org' = Suffix(full, Len(p.buf))
        /\ out' = IF p.res = "Item" THEN Append(out, p.item) ELSE out
        /\ outFrom' = IF p.res = "Item"
                      THEN Append(outFrom, {FrameOf(full[j]) : j \in 1..cut})
                      ELSE outFrom
        /\ pos' = pos + SumLen(taken)
        /\ srcFailed' = (srcFailed \/ Count(taken, "Err") > 0)
        /\ srcEnded' = (srcEnded \/ Count(taken, "End") > 0)
        /\ last' = [res |-> p.res, item |-> p.item, polls |-> p.polls, woke |-> p.woke,
                    two |-> IF buf = <<>> /\ p.polls = 1 /\ TwoFrames(Concat(taken))
                            THEN FirstTwo(Concat(taken)) ELSE <<>>,
                    after2 |-> last.two # <<>>,
                    src |-> IF p.polls = 0 THEN "NotPolled" ELSE r.t,
                    had |-> buf # <<>>]
        /\ dropped' = IF p.res = "Item" /\ p.item = ErrItem("utf8")
                      THEN dropped \cup {pos + i : i \in 1..SumLen(taken)}
                      ELSE dropped
        /\ UNCHANGED <<wire, json, shown>>

BufReady == DeserializeBuf(buf).some

\* poll_next finds a chunk in the buffer and returns it (lines 268-271).
PollBuffered ==
    /\ BufReady
    /\ Pull(NextReady(pos))

\* poll_next polls the source, which hands out the next k tokens.
PollBytes ==
    /\ ~BufReady
    /\ ~srcEnded
    /\ \E k \in 1..(Len(wire) - pos) : Pull(SrcBytes(SubSeq(wire, pos + 1, pos + k)))

\* poll_next polls the source, which has nothing ready yet.
PollPending ==
    /\ ~BufReady
    /\ ~srcEnded
    /\ Pull(SrcPending)

\* poll_next polls the source, which reports a transport error.  A response
\* reports at most one, and may hand out further chunks after it.
PollSrcErr ==
    /\ ~BufReady
    /\ ~srcEnded
    /\ ~srcFailed
    /\ Pull(SrcErr)

\* poll_next polls the source, which has handed out the whole body and ends,
\* or has ended before.
PollEnd ==
    /\ ~BufReady
    /\ pos = Len(wire)
    /\ Pull(SrcEnd)

Next ==
    \/ PollBuffered
    \/ PollBytes
    \/ PollPending
    \/ PollSrcErr
    \/ PollEnd

Spec == Init /\ [][Next]_vars

\* ------------------------------------------------------------------ two chunks

\* The source hands out a first chunk that is a proper prefix of the body.
PollFirst ==
    /\ ~BufReady
    /\ pos = 0
    /\ \E k \in 1..(Len(wire) - 1) : Pull(SrcBytes(SubSeq(wire, 1, k)))

\* The source hands out the rest of the body as the second chunk.
PollRest ==
    /\ ~BufReady
    /\ 0 < pos
    /\ pos < Len(wire)
    /\ Pull(NextReady(pos))

NextSplit ==
    \/ PollBuffered
    \/ PollFirst
    \/ PollRest
    \/ PollEnd

\* The response body arrives as two chunks, split at any offset, and the
\* source then ends.
SpecSplit == Init /\ [][NextSplit]_vars

\* ------------------------------------------------------------------ fairness

\* A pull that returns a buffered chunk changes out, so PollBuffered can take
\* a step that changes vars exactly when BufReady holds.
EnabledPollBuffered == BufReady

\* The pull that meets the end of the source changes last unless the pull
\* before it has met the end too.
EnabledPollEnd == ~BufReady /\ pos = Len(wire) /\ last.res # "None"

\* The caller keeps pulling and the source, once it has handed out the whole
\* body, ends: weak fairness of PollBuffered and of PollEnd, each written out
\* as "infinitely often disabled or infinitely often taken" with the enabling
\* condition above in place of ENABLED <<A>>_vars.
SpecLive ==
    /\ Spec
    /\ ([]<>(~EnabledPollBuffered) \/ []<><<PollBuffered>>_vars)
    /\ ([]<>(~EnabledPollEnd) \/ []<><<PollEnd>>_vars)

\* ------------------------------------------------------------------ Display

\* The values of delta.content: Option<String>, None being <<>>.
Contents == {"", "hi", "yo"}
OptContents == {<<>>} \cup {<<c>> : c \in Contents}

\* The JSON objects with the key `choices`, an array of at most k choices,
\* each written as the content of its delta.
JsonChunks(k) ==
    {[given |-> TRUE, choices |-> cs] :
        cs \in UNION {[1..n -> OptContents] : n \in 0..k}}

\* serde_json::from_str::<ChatCompletionChunk>: `choices` is a Vec<Choice>
\* with no default, so an object without the key is rejected and an empty
\* array is accepted.
FromJson(j) ==
    IF j.given THEN [t |-> "Ok", v |-> [choices |-> j.choices]]
    ELSE [t |-> "Err", v |-> [choices |-> <<>>]]

\* Option::unwrap_or
UnwrapOr(opt, default) == IF opt = <<>> THEN default ELSE opt[1]

\* The index `self.choices[0]` is out of bounds: the thread panics.
Panicked == [t |-> "Panic", v |-> ""]

\* impl Display for ChatCompletionChunk (and to_string, which calls it).
Display(chunk) ==
    IF Len(chunk.choices) = 0 THEN Panicked
    ELSE [t |-> "Returned", v |-> UnwrapOr(chunk.choices[1], "")]

\* A consumer holds one JSON object.
InitDisplay ==
    /\ json \in JsonChunks(MaxChoices) \cup {NoJson}
    /\ shown = NotShown
    /\ wire = <<>>
    /\ pos = 0
    /\ srcFailed = FALSE
    /\ srcEnded = FALSE
    /\ buf = <<>>
    /\ org = <<>>
    /\ out = <<>>
    /\ outFrom = <<>>
    /\ last = NoCall
    /\ dropped = {}

\* The consumer decodes the object and, if that gave a chunk, formats it.
FormatChunk ==
    /\ shown = NotShown
    /\ FromJson(json).t = "Ok"
    /\ shown' = Display(FromJson(json).v)
    /\ UNCHANGED <<wire, pos, srcFailed, srcEnded, buf, org, out, outFrom, last,
                   dropped, json>>

NextDisplay == FormatChunk

SpecDisplay == InitDisplay /\ [][NextDisplay]_vars

\* ------------------------------------------------------------------ the wire format

\* The payload of a segment that has the prefix.
Payload(seg) == StripPrefix(seg).rest

\* w is N >= 0 well-formed data frames followed by the termination frame.
WellFormed(w) ==
    LET segs == Split(w)
        n == Len(segs)
    IN  /\ n >= 2
        /\ segs[n] = <<>>
        /\ segs[n - 1] = <<PREFIX, DONE>>
        /\ \A i \in 1..(n - 2) : IsDataFrame(segs[i])

\* The events of the data frames of a well-formed body, in frame order.
Events(w) == [i \in 1..(Len(Split(w)) - 2) |-> OkItem(Payload(Split(w)[i]))]

\* The items of repeated calls of poll_next, from buffer b on, until one
\* returns Ready(None): a call that returns Pending after waking the task is
\* followed by the next call.  ready is what the source returns, its last entry
\* repeated for ever.
RECURSIVE Run(_, _)
Run(b, ready) ==
    LET p == PollNext(b, ready)
        rest == IF p.polls >= 1 /\ Len(ready) > 1 THEN Tail(ready) ELSE ready
    IN  IF p.res = "None" THEN <<>>
        ELSE (IF p.res = "Item" THEN <<p.item>> ELSE <<>>) \o Run(p.buf, rest)

\* The items a decoder yields when the body w arrives as one single chunk.
SingleRun(w) == Run(<<>>, <<SrcBytes(w), SrcEnd>>)

\* The payloads of the events delivered so far, in order.
RECURSIVE OkPayloads(_)
OkPayloads(items) ==
    IF items = <<>> THEN <<>>
    ELSE (IF items[1].t = "Ok" THEN <<items[1].v>> ELSE <<>>) \o OkPayloads(Tail(items))

\* A pull has returned Ready(None).
Ended == last.res = "None"

\* ------------------------------------------------------------------ claims

\* C1: for any chunking of a body that is N well-formed data frames followed
\* by the termination frame, once the source has ended and a pull has
\* reported end-of-stream, the items yielded are exactly the N events, in
\* frame order.
C1_AllFramesThenEnd ==
    (WellFormed(wire) /\ ~srcFailed /\ Ended) => out = Events(wire)

\* C2: a well-formed body delivered as two chunks, split at any offset, yields
\* the same sequence of items as the body delivered as one chunk.
C2_SplitIsInvisible ==
    (WellFormed(wire) /\ Ended) => out = SingleRun(wire)

BadThenGood(w) ==
    /\ Len(Split(w)) >= 3
    /\ StripPrefix(Split(w)[1]).some
    /\ Payload(Split(w)[1]) # <<DONE>>
    /\ ~ValidJson(Payload(Split(w)[1]))
    /\ IsDataFrame(Split(w)[2])

\* C4: a delimiter-terminated data frame whose payload is not valid JSON makes
\* a pull return a decode error, and the well-formed frame after it is decoded
\* by a later pull: by the time the stream has ended, the items hold the
\* decode error and, after it, the event of the frame that follows.
C4_BadJsonIsLocal ==
    (BadThenGood(wire) /\ ~srcFailed /\ Ended) =>
        \E i, j \in 1..Len(out) :
            /\ i < j
            /\ out[i] = ErrItem("json")
            /\ out[j] = OkItem(Payload(Split(wire)[2]))

\* The source has so far delivered a non-empty prefix of a first, valid data
\* frame that stops short of the end of its delimiter.
OnlyAPrefix ==
    /\ Len(Split(wire)) >= 2
    /\ IsDataFrame(Split(wire)[1])
    /\ 1 <= pos
    /\ pos <= Len(Split(wire)[1]) + 1

\* C5: while the source has delivered only a prefix of a valid frame, no event
\* has been yielded and no pull has reported end-of-stream.
C5_PrefixYieldsNothing ==
    (OnlyAPrefix /\ ~srcFailed) => (OkPayloads(out) = <<>> /\ ~Ended)

\* The termination frame is the first frame of the buffer.
DoneAtHead == Len(Split(buf)) >= 2 /\ Split(buf)[1] = <<PREFIX, DONE>>

\* An encoding error or a transport error has been returned.
FatalSurfaced ==
    \E i \in 1..Len(out) : out[i] \in {ErrItem("utf8"), ErrItem("transport")}

\* The decoder is Exhausted: termination frame seen, source ended, or fatal
\* error surfaced.
Exhausted == DoneAtHead \/ srcEnded \/ FatalSurfaced

\* C6: once the decoder is Exhausted, every pull returns "no more events".
C6_ExhaustedIsFinal == [][Exhausted => last'.res = "None"]_vars

\* Every frame of w is a well-formed data frame or the termination frame.
AllWellFormed(w) ==
    LET segs == Split(w)
    IN  /\ segs[Len(segs)] = <<>>
        /\ \A i \in 1..(Len(segs) - 1) :
              IsDataFrame(segs[i]) \/ segs[i] = <<PREFIX, DONE>>

\* The places in out of the events delivered so far.
Delivered == {i \in 1..Len(out) : out[i].t = "Ok"}

\* C7: the events delivered so far are, in order and without repetition, a
\* subsequence of the frames of the byte stream: each event is made of the
\* text of one frame (no two frames merged), and a later event comes from a
\* later frame (no frame twice, none split in two events, none out of order).
\* Stated for the bodies whose frames are all well-formed.
C7_EventsAreFrames ==
    AllWellFormed(wire) =>
        /\ \A i \in Delivered : Cardinality(outFrom[i]) = 1
        /\ \A i, j \in Delivered :
              i < j => \A f \in outFrom[i], g \in outFrom[j] : f < g

\* C8: a pull polls the source at most once, so it consumes zero or one
\* chunk, also when the source has a further chunk ready.
C8_AtMostOneChunk == last.polls \in {0, 1}

\* A pull has consumed one chunk that left the frame incomplete and returned,
\* although the source has more of the body ready.
C8_Witness ==
    /\ last.polls = 1
    /\ last.res = "Pending"
    /\ last.woke
    /\ 0 < pos
    /\ pos < Len(wire)

\* The first frame of w is delimiter-terminated and lacks the prefix.
NoPrefixFirst(w) == Len(Split(w)) >= 2 /\ ~StripPrefix(Split(w)[1]).some

\* C9: a delimiter-terminated frame without the prefix makes a pull return a
\* decode error: by the time the stream has ended, an error has been returned.
C9_NoPrefixIsAnError ==
    (NoPrefixFirst(wire) /\ ~srcFailed /\ Ended) =>
        \E i \in 1..Len(out) : out[i].t = "Err"

\* C10: a frame without the prefix does not halt the stream: by the time the
\* stream has ended, the well-formed data frame that follows it has been
\* delivered.
C10_NoPrefixDoesNotHalt ==
    (NoPrefixFirst(wire) /\ Len(Split(wire)) >= 3 /\ IsDataFrame(Split(wire)[2])
        /\ ~srcFailed /\ Ended) =>
        \E i \in 1..Len(out) : out[i] = OkItem(Payload(Split(wire)[2]))

\* C11: when the frame reached is the termination frame, the pull reports
\* "no more events", whether or not the source has ended: after every pull
\* that leaves the termination frame at the head of the buffer of a
\* well-formed body, the result of that pull is "no more events".
C11_DoneEndsTheStream ==
    (WellFormed(wire) /\ ~srcFailed /\ DoneAtHead) => last.res = "None"

\* An encoding error has been returned at place i of the items.
Utf8ErrAt(i) == i \in 1..Len(out) /\ out[i] = ErrItem("utf8")

\* C12: a chunk that is not valid UTF-8 makes the pull return a decode error
\* that is fatal: no event is yielded after the decode error.
C12_BadUtf8IsFatal ==
    \A i, j \in 1..Len(out) : (Utf8ErrAt(i) /\ i < j) => out[j].t # "Ok"

\* A transport error has been returned.
TransportSurfaced == \E i \in 1..Len(out) : out[i] = ErrItem("transport")

\* C13: the error of the source is the terminal result: once it has been
\* returned, no pull polls the source and no pull yields an event.
C13_SourceErrorIsTerminal ==
    [][TransportSurfaced =>
          /\ last'.polls = 0
          /\ ~(last'.res = "Item" /\ last'.item.t = "Ok")]_vars

\* C14: when the buffer holds no chunk to return and the source signals the
\* end of the data, the pull reports "no more events" and leaves the buffer
\* as it is, whatever text is left in it; hence, once the source has handed
\* out the whole body and the caller keeps pulling, a pull eventually reports
\* the end of the stream.
C14_EndIsReported ==
    /\ [][last'.src = "End" => (last'.res = "None" /\ buf' = buf)]_vars
    /\ (pos = Len(wire)) ~> Ended

\* The end of the stream has been reported while text was left in the buffer.
C14_Witness == Ended /\ srcEnded /\ last.src = "End" /\ buf # <<>>

\* C15: between pulls the buffer is exactly a tail of the bytes received from
\* the source so far: its tokens are the last Len(buf) tokens handed out, each
\* once and in order.
C15_BufferIsTail == org = [i \in 1..Len(buf) |-> pos - Len(buf) + i]

\* C16: a pull that returns Pending has a wake-up arranged: either the source
\* was polled and returned Pending itself, or the decoder woke its own task;
\* and a pull that received a chunk which left the frame incomplete wakes the
\* task and returns Pending, not "no more events".
C16_PendingIsWoken ==
    /\ last.res = "Pending" =>
          /\ last.polls = 1
          /\ last.src = "Pending" \/ (last.src = "Bytes" /\ last.woke)
    /\ (last.src = "Bytes" /\ last.res # "Item") =>
          (last.res = "Pending" /\ last.woke)

\* A pull received a chunk that left the first frame incomplete, woke the task
\* and returned Pending.
C16_Witness ==
    /\ last.res = "Pending"
    /\ last.src = "Bytes"
    /\ last.woke
    /\ buf # <<>>
    /\ ~BufReady

\* The item is the outcome of serde_json::from_str on a chunk taken from the
\* buffer.
FromSplitter(item) == item.t = "Ok" \/ item = ErrItem("json")

\* The text of a pull: the buffer before it, appended with the chunk the pull
\* took from the source, if any.
PullText == buf \o SubSeq(wire, pos + 1, pos')

\* What follows the first delimiter of text; nothing when it has none.
AfterDelim(text) ==
    IF DelimAt(text) = {} THEN <<>>
    ELSE SubSeq(text, Min(DelimAt(text)) + 2, Len(text))

\* C17: whenever a pull takes a chunk out of the buffer, whether its payload
\* decodes or not, the buffer afterwards is exactly the text that followed the
\* first delimiter: the first segment and its delimiter are removed, the rest
\* is left intact, later delimiters included.
C17_RemainderIsIntact ==
    [][(last'.res = "Item" /\ FromSplitter(last'.item)) =>
          buf' = AfterDelim(PullText)]_vars

\* A chunk whose payload does not decode was taken out of the buffer and two
\* later frames, with the delimiter between them, are left in it.
C17_Witness ==
    /\ last.res = "Item"
    /\ last.item = ErrItem("json")
    /\ Len(Split(buf)) >= 3
    /\ buf = SubSeq(wire, pos - Len(buf) + 1, pos)

\* C18: a pull that returns Pending leaves the buffer equal to its content
\* before the pull, appended with the chunk received during the pull if there
\* was one; when the source was pending, the buffer is unchanged.
C18_PendingKeepsBuffer ==
    [][last'.res = "Pending" =>
          /\ buf' = PullText
          /\ last'.src = "Pending" => (buf' = buf /\ pos' = pos)]_vars

\* A pull received a chunk, returned Pending, and the buffer holds everything
\* received since the start, which is more than one token.
C18_Witness ==
    /\ last.res = "Pending"
    /\ last.src = "Bytes"
    /\ out = <<>>
    /\ Len(buf) >= 2
    /\ buf = SubSeq(wire, 1, pos)

\* No encoding error has been returned.
NoUtf8Err == \A i \in 1..Len(out) : out[i] # ErrItem("utf8")

\* The first segment of text is a whole data frame: the prefix and a whole
\* JSON object, whether or not its delimiter has arrived.
HeadWhole(text) == IsDataFrame(Split(text)[1])

\* C19: when a pull returns an event, it wakes the task if a second whole
\* frame is in the buffer behind the one returned, and does not wake it
\* otherwise.  Stated for the bodies whose frames are all well-formed, with
\* every chunk valid text.
C19_WakeIffSecondFrame ==
    (AllWellFormed(wire) /\ ~srcFailed /\ NoUtf8Err
        /\ last.res = "Item" /\ last.item.t = "Ok") =>
        (last.woke <=> HeadWhole(buf))

\* C20: a first segment is taken for a complete frame only if its payload is a
\* whole JSON object, and a frame still in transmission yields no error: while
\* a body whose frames are all well-formed arrives, in chunks that are all
\* valid text, no pull returns a decode error.
C20_PartialIsNoError ==
    (AllWellFormed(wire) /\ ~srcFailed /\ NoUtf8Err) =>
        \A i \in 1..Len(out) : out[i] # ErrItem("json")

\* C21: formatting a decoded chunk with Display returns a value for every
\* chunk that decoding accepts, an empty `choices` list included, and for a
\* chunk with choices that value is the content of the first choice's delta,
\* or the empty string when the content is absent.
C21_DisplayAlwaysReturns ==
    shown # NotShown =>
        /\ shown.t = "Returned"
        /\ json.choices # <<>> => shown.v = UnwrapOr(json.choices[1], "")

\* The chunk a pull takes from the source; empty when it takes none.
PullChunk == SubSeq(wire, pos + 1, pos')

\* A complete data frame, delimiter included, heads text.
HeadComplete(text) == Len(Split(text)) >= 2 /\ IsDataFrame(Split(text)[1])

\* C22: when the chunk received during a pull is appended and completes the
\* frame at the head of the buffer, that same pull returns the event of that
\* frame, with one source poll, and takes the frame out of the buffer.
C22_CompletedFrameSamePull ==
    [][(last'.src = "Bytes" /\ Utf8Valid(PullChunk) /\ HeadComplete(PullText)) =>
          /\ last'.res = "Item"
          /\ last'.item = OkItem(Payload(Split(PullText)[1]))
          /\ last'.polls = 1
          /\ buf' = AfterDelim(PullText)]_vars

\* A pull that began with text in the buffer received a chunk and returned
\* the first event, the whole of the first frame having been received by then.
C22_Witness ==
    /\ last.had
    /\ last.src = "Bytes"
    /\ last.res = "Item"
    /\ out = <<OkItem(Payload(Split(wire)[1]))>>
    /\ Len(Split(wire)) >= 2
    /\ pos >= Len(Split(wire)[1]) + 2

\* C23: once the termination frame heads the buffer it stays there, whatever
\* the source delivers afterwards, and no pull takes a chunk out of the buffer
\* again: no event and no decode error is yielded, so data frames that arrive
\* after the termination frame are never delivered.
C23_DoneBlocksTheBuffer ==
    [][DoneAtHead =>
          /\ DoneAtHead'
          /\ ~(last'.res = "Item" /\ FromSplitter(last'.item))
          /\ out' \in {out, Append(out, ErrItem("utf8")), Append(out, ErrItem("transport"))}]_vars

\* The stream has ended with the termination frame at the head of the buffer
\* and a whole data frame behind it, undelivered: the pull that met the end of
\* the source began with both in the buffer.
C23_Witness ==
    /\ DoneAtHead
    /\ Ended
    /\ last.had
    /\ out = <<>>
    /\ Len(Split(buf)) >= 3
    /\ IsDataFrame(Split(buf)[2])

\* C24: a pull that returns the error for a chunk that is not valid UTF-8
\* takes the chunk from the source and leaves the buffer exactly as it was;
\* and at no later time does the buffer hold a byte of a rejected chunk.
C24_RejectedChunkIsGone ==
    /\ [][(last'.res = "Item" /\ last'.item = ErrItem("utf8")) =>
             /\ ~Utf8Valid(PullChunk)
             /\ buf' = buf
             /\ org' = org]_vars
    /\ [](\A i \in 1..Len(org) : org[i] \notin dropped)

\* A chunk was rejected and a later pull has appended a later chunk to the
\* buffer.
C24_Witness ==
    /\ dropped # {}
    /\ last.src = "Bytes"
    /\ last.res = "Pending"
    /\ \E i \in 1..Len(org) : \A d \in dropped : org[i] > d

====
